---- MODULE Spec2Model ----
(***************************************************************************)
(* Model of Zipline_Scrapper.py: the title attribute extractor, the        *)
(* ZLineRangeSeriesManager aggregator and the bounded breadth-first        *)
(* traversal get_all_variants_demo.                                        *)
(*                                                                         *)
(* Python strings that the code inspects character by character (titles,   *)
(* prices, extracted attributes) are sequences of one-character strings.   *)
(* Page-relative URLs and series keys are only compared and concatenated   *)
(* as a whole and are TLA+ strings.                                        *)
(***************************************************************************)
EXTENDS Integers, Sequences, FiniteSets, TLC

(***************************************************************************)
(* Bounds of the model                                                     *)
(***************************************************************************)
\* number of distinct page-relative URLs the site can serve
NumUrls == 3
\* largest max_urls argument tried
MaxCap == 3
\* longest variant_urls list a page carries
MaxListed == 2
\* number of add_variant calls made on a manager driven directly
MaxCalls == 3
\* number of phrases a title given to the extractor functions is made of
MaxWords == 2

(***************************************************************************)
(* Characters and strings                                                  *)
(***************************************************************************)
\* the characters of the model, in code point order
Alphabet == <<" ", "(", ")", "-", ".", "/", "0", "1", "2", "3", "4", "5", "6", "7", "8", "9", "A", "B", "C", "D", "E", "F", "G", "H", "I", "J", "K", "L", "M", "N", "O", "P", "Q", "R", "S", "T", "U", "V", "W", "X", "Y", "Z", "a", "b", "c", "d", "e", "f", "g", "h", "i", "j", "k", "l", "m", "n", "o", "p", "q", "r", "s", "t", "u", "v", "w", "x", "y", "z">>
UpperChars == <<"A", "B", "C", "D", "E", "F", "G", "H", "I", "J", "K", "L", "M", "N", "O", "P", "Q", "R", "S", "T", "U", "V", "W", "X", "Y", "Z">>
LowerChars == <<"a", "b", "c", "d", "e", "f", "g", "h", "i", "j", "k", "l", "m", "n", "o", "p", "q", "r", "s", "t", "u", "v", "w", "x", "y", "z">>
DigitChars == <<"0", "1", "2", "3", "4", "5", "6", "7", "8", "9">>

SeqRange(s) == {s[i] : i \in 1..Len(s)}
IndexOf(c, s) == CHOOSE i \in 1..Len(s) : s[i] = c

\* ord(c), up to an order-preserving renumbering
Ord(c) == IndexOf(c, Alphabet)
IsDigit(c) == c \in SeqRange(DigitChars)
IsUpper(c) == c \in SeqRange(UpperChars)
IsSpace(c) == c = " "
DigitVal(c) == IndexOf(c, DigitChars) - 1

\* str.lower()
lower(s) == [i \in 1..Len(s) |-> IF IsUpper(s[i]) THEN LowerChars[IndexOf(s[i], UpperChars)] ELSE s[i]]

\* pat occurs in s at position i
MatchAt(pat, s, i) == /\ i + Len(pat) - 1 <= Len(s)
                      /\ \A k \in 1..Len(pat) : s[i + k - 1] = pat[k]
\* the Python expression  pat in s
Contains(pat, s) == \E i \in 1..(Len(s) + 1) : MatchAt(pat, s, i)

\* str.strip()
strip(s) == LET keep == {i \in 1..Len(s) : ~IsSpace(s[i])}
            IN  IF keep = {} THEN <<>>
                ELSE LET lo == CHOOSE i \in keep : \A j \in keep : i <= j
                         hi == CHOOSE i \in keep : \A j \in keep : j <= i
                     IN  SubSeq(s, lo, hi)

\* s < t in Python's string order (code point by code point, prefix first)
StrLess(s, t) == \E i \in 1..(Len(t)) :
                    /\ \A k \in 1..(i - 1) : k <= Len(s) /\ s[k] = t[k]
                    /\ \/ i = Len(s) + 1
                       \/ i <= Len(s) /\ Ord(s[i]) < Ord(t[i])

\* a dict lookup  d.get(k, default)
Get(d, k, default) == IF k \in DOMAIN d THEN d[k] ELSE default

(***************************************************************************)
(* extract_sku_from_title                                                  *)
(***************************************************************************)
IsSkuChar(c) == IsUpper(c) \/ IsDigit(c) \/ c = "-"

\* re.search(r'\(([A-Z0-9\-]+)\)$', t): the positions (open, close) of the
\* parentheses of a match; close is the last character of t
SkuMatches(t) == {i \in 1..Len(t) :
                    /\ t[i] = "("
                    /\ Len(t) >= i + 2
                    /\ t[Len(t)] = ")"
                    /\ \A k \in (i + 1)..(Len(t) - 1) : IsSkuChar(t[k])}

extract_sku_from_title(title) ==
    IF title = <<>> THEN <<>>
    ELSE LET t == strip(title)
         IN  IF SkuMatches(t) = {} THEN <<>>
             ELSE LET i == CHOOSE j \in SkuMatches(t) : \A k \in SkuMatches(t) : j <= k
                  IN  SubSeq(t, i + 1, Len(t) - 1)

(***************************************************************************)
(* detect_series                                                           *)
(***************************************************************************)
SeriesKeys == <<"paramount", "classic", "select", "unknown">>
Series == SeqRange(SeriesKeys)

\* detect_series testing 'select' before 'classic'
detect_series_SelectFirst(title) ==
    LET title_lower == lower(title)
    IN  IF Contains(<<"p", "a", "r", "a", "m", "o", "u", "n", "t">>, title_lower) THEN "paramount"
        ELSE IF Contains(<<"s", "e", "l", "e", "c", "t">>, title_lower) THEN "select"
        ELSE IF Contains(<<"c", "l", "a", "s", "s", "i", "c">>, title_lower) THEN "classic"
        ELSE "unknown"

detect_series(title) ==
    LET title_lower == lower(title)
    IN  IF Contains(<<"p", "a", "r", "a", "m", "o", "u", "n", "t">>, title_lower) THEN "paramount"
        ELSE IF Contains(<<"c", "l", "a", "s", "s", "i", "c">>, title_lower) THEN "classic"
        ELSE IF Contains(<<"s", "e", "l", "e", "c", "t">>, title_lower) THEN "select"
        ELSE "unknown"

(***************************************************************************)
(* extract_variant_details                                                 *)
(***************************************************************************)
\* end of the longest run of digits that starts at i
DigitsEnd(s, i) == CHOOSE e \in i..Len(s) :
                      /\ \A k \in i..e : IsDigit(s[k])
                      /\ (e = Len(s) \/ ~IsDigit(s[e + 1]))
\* first position after the white space that starts at i
SkipSpace(s, i) == CHOOSE e \in i..(Len(s) + 1) :
                      /\ \A k \in i..(e - 1) : IsSpace(s[k])
                      /\ (e = Len(s) + 1 \/ ~IsSpace(s[e]))
\* r'(\d+)\s*(?:in\.|inch)' matches at i with the greedy digit run
SizeMatchAt(s, i) == /\ IsDigit(s[i])
                     /\ LET u == SkipSpace(s, DigitsEnd(s, i) + 1)
                        IN  MatchAt(<<"i", "n", ".">>, s, u) \/ MatchAt(<<"i", "n", "c", "h">>, s, u)
SizeMatches(s) == {i \in 1..Len(s) : SizeMatchAt(s, i)}

size_of(title) ==
    IF SizeMatches(title) = {} THEN <<>>
    ELSE LET i == CHOOSE j \in SizeMatches(title) : \A k \in SizeMatches(title) : j <= k
         IN  SubSeq(title, i, DigitsEnd(title, i)) \o <<" ", "I", "n", "c", "h">>

\* fuel_type testing 'gas' before 'dual fuel'
fuel_type_of_GasFirst(title) ==
    IF Contains(<<"g", "a", "s">>, lower(title)) THEN <<"G", "a", "s">>
    ELSE IF Contains(<<"d", "u", "a", "l", " ", "f", "u", "e", "l">>, lower(title)) THEN <<"D", "u", "a", "l", " ", "F", "u", "e", "l">>
    ELSE <<>>

fuel_type_of(title) ==
    IF Contains(<<"d", "u", "a", "l", " ", "f", "u", "e", "l">>, lower(title)) THEN <<"D", "u", "a", "l", " ", "F", "u", "e", "l">>
    ELSE IF Contains(<<"g", "a", "s">>, lower(title)) THEN <<"G", "a", "s">>
    ELSE <<>>

\* base_finish testing the plain 'stainless steel' first
base_finish_of_PlainFirst(title) ==
    LET title_lower == lower(title)
    IN  IF Contains(<<"s", "t", "a", "i", "n", "l", "e", "s", "s", " ", "s", "t", "e", "e", "l">>, title_lower) THEN <<"S", "t", "a", "i", "n", "l", "e", "s", "s", " ", "S", "t", "e", "e", "l">>
        ELSE IF Contains(<<"b", "l", "a", "c", "k", " ", "s", "t", "a", "i", "n", "l", "e", "s", "s", " ", "s", "t", "e", "e", "l">>, title_lower) THEN <<"B", "l", "a", "c", "k", " ", "S", "t", "a", "i", "n", "l", "e", "s", "s", " ", "S", "t", "e", "e", "l">>
        ELSE IF Contains(<<"s", "a", "t", "i", "n", " ", "s", "t", "a", "i", "n", "l", "e", "s", "s", " ", "s", "t", "e", "e", "l">>, title_lower) THEN <<"S", "a", "t", "i", "n", " ", "S", "t", "a", "i", "n", "l", "e", "s", "s", " ", "S", "t", "e", "e", "l">>
        ELSE <<>>

base_finish_of(title) ==
    LET title_lower == lower(title)
    IN  IF Contains(<<"b", "l", "a", "c", "k", " ", "s", "t", "a", "i", "n", "l", "e", "s", "s", " ", "s", "t", "e", "e", "l">>, title_lower) THEN <<"B", "l", "a", "c", "k", " ", "S", "t", "a", "i", "n", "l", "e", "s", "s", " ", "S", "t", "e", "e", "l">>
        ELSE IF Contains(<<"s", "a", "t", "i", "n", " ", "s", "t", "a", "i", "n", "l", "e", "s", "s", " ", "s", "t", "e", "e", "l">>, title_lower) THEN <<"S", "a", "t", "i", "n", " ", "S", "t", "a", "i", "n", "l", "e", "s", "s", " ", "S", "t", "e", "e", "l">>
        ELSE IF Contains(<<"s", "t", "a", "i", "n", "l", "e", "s", "s", " ", "s", "t", "e", "e", "l">>, title_lower) THEN <<"S", "t", "a", "i", "n", "l", "e", "s", "s", " ", "S", "t", "e", "e", "l">>
        ELSE <<>>

accent_of(title) ==
    LET title_lower == lower(title)
    IN  IF Contains(<<"c", "h", "a", "m", "p", "a", "g", "n", "e", " ", "b", "r", "o", "n", "z", "e">>, title_lower) THEN <<"C", "h", "a", "m", "p", "a", "g", "n", "e", " ", "B", "r", "o", "n", "z", "e">>
        ELSE IF Contains(<<"p", "o", "l", "i", "s", "h", "e", "d", " ", "g", "o", "l", "d">>, title_lower) THEN <<"P", "o", "l", "i", "s", "h", "e", "d", " ", "G", "o", "l", "d">>
        ELSE IF Contains(<<"m", "a", "t", "t", "e", " ", "b", "l", "a", "c", "k">>, title_lower) THEN <<"M", "a", "t", "t", "e", " ", "B", "l", "a", "c", "k">>
        ELSE <<>>

door_color_of(title) ==
    LET title_lower == lower(title)
    IN  IF Contains(<<"w", "h", "i", "t", "e", " ", "m", "a", "t", "t", "e", " ", "d", "o", "o", "r">>, title_lower) \/ Contains(<<"w", "h", "i", "t", "e", " ", "m", "a", "t", "t", "e">>, title_lower)
        THEN <<"W", "h", "i", "t", "e", " ", "M", "a", "t", "t", "e">>
        ELSE <<>>

burner_type_of(title) ==
    LET title_lower == lower(title)
    IN  IF Contains(<<"b", "r", "a", "s", "s", " ", "b", "u", "r", "n", "e", "r">>, title_lower) THEN <<"B", "r", "a", "s", "s", " ", "B", "u", "r", "n", "e", "r", "s">>
        ELSE IF Contains(<<"d", "u", "o", "p", "r", "o">>, title_lower) THEN <<"D", "u", "o", "P", "r", "o", " ", "B", "u", "r", "n", "e", "r", "s">>
        ELSE IF Contains(<<"p", "o", "r", "c", "e", "l", "a", "i", "n">>, title_lower) THEN <<"P", "o", "r", "c", "e", "l", "a", "i", "n">>
        ELSE <<>>

\* the dict d with key k set to v
DictSet(d, k, v) == [x \in (DOMAIN d) \cup {k} |-> IF x = k THEN v ELSE d[x]]

\* extract_variant_details setting the two optional keys unconditionally
extract_variant_details_AlwaysOptional(title) ==
    [size |-> size_of(title),
     fuel_type |-> fuel_type_of(title),
     base_finish |-> base_finish_of(title),
     accent |-> accent_of(title),
     door_color |-> door_color_of(title),
     burner_type |-> burner_type_of(title)]

extract_variant_details(title) ==
    LET result == [size |-> size_of(title),
                   fuel_type |-> fuel_type_of(title),
                   base_finish |-> base_finish_of(title),
                   accent |-> accent_of(title)]
        door_color == door_color_of(title)
        burner_type == burner_type_of(title)
        r1 == IF door_color # <<>> THEN DictSet(result, "door_color", door_color) ELSE result
    IN  IF burner_type # <<>> THEN DictSet(r1, "burner_type", burner_type) ELSE r1

(***************************************************************************)
(* Python values that reach int()                                          *)
(***************************************************************************)
PyStr(s) == [type |-> "str", val |-> s]
PyInt(n) == [type |-> "int", val |-> n]
PyNone == [type |-> "NoneType"]

\* the decimal digits of s read as a number
RECURSIVE DigitsValue(_)
DigitsValue(s) == IF s = <<>> THEN 0
                  ELSE 10 * DigitsValue(SubSeq(s, 1, Len(s) - 1)) + DigitVal(s[Len(s)])

AllDigits(s) == s # <<>> /\ \A i \in 1..Len(s) : IsDigit(s[i])
\* a string int() accepts: white space, an optional minus sign, digits
IsIntLiteral(s) == LET t == strip(s)
                   IN  \/ AllDigits(t)
                       \/ t # <<>> /\ t[1] = "-" /\ AllDigits(Tail(t))

\* int(v) raises ValueError or TypeError
int_raises(v) == \/ v.type = "NoneType"
                 \/ v.type = "str" /\ ~IsIntLiteral(v.val)
\* the value of int(v) when it does not raise
int(v) == IF v.type = "int" THEN v.val
          ELSE LET t == strip(v.val)
               IN  IF t[1] = "-" THEN 0 - DigitsValue(Tail(t)) ELSE DigitsValue(t)

(***************************************************************************)
(* ZLineRangeSeriesManager                                                 *)
(***************************************************************************)
Origin == "https://zlinekitchen.com"

\* ZLineRangeSeriesManager.__init__
NewSeriesData == [s \in Series |-> [variants |-> <<>>]]

\* {**a, **b}
Merge(a, b) == [k \in (DOMAIN a) \cup (DOMAIN b) |-> IF k \in DOMAIN b THEN b[k] ELSE a[k]]

\* add_variant propagates an exception to its caller
add_variant_raises(variant_data) == int_raises(Get(variant_data, "price", PyInt(0)))

structured_variant(variant_data) ==
    Merge([sku |-> extract_sku_from_title(Get(variant_data, "title", <<>>)),
           title |-> Get(variant_data, "title", <<>>),
           price |-> int(Get(variant_data, "price", PyInt(0))),
           url |-> Origin \o Get(variant_data, "url", ""),
           images |-> Get(variant_data, "images", <<>>),
           description |-> Get(variant_data, "description", "")],
          extract_variant_details(Get(variant_data, "title", <<>>)))

\* add_variant that skips a record the series already holds
add_variant_Dedup(sd, variant_data) ==
    LET series == detect_series(Get(variant_data, "title", <<>>))
        rec == structured_variant(variant_data)
    IN  IF rec \in SeqRange(sd[series].variants) THEN sd
        ELSE [sd EXCEPT ![series].variants = Append(@, rec)]

\* series_data after add_variant(variant_data) returned
add_variant(sd, variant_data) ==
    LET series == detect_series(Get(variant_data, "title", <<>>))
    IN  [sd EXCEPT ![series].variants = Append(@, structured_variant(variant_data))]

\* the sort key  lambda x: (x['size'], x['fuel_type'], x.get('accent', ''))
SortKey(x) == <<x.size, x.fuel_type, Get(x, "accent", <<>>)>>
\* tuple comparison a < b of two sort keys
KeyLess(a, b) == \/ StrLess(a[1], b[1])
                 \/ a[1] = b[1] /\ StrLess(a[2], b[2])
                 \/ a[1] = b[1] /\ a[2] = b[2] /\ StrLess(a[3], b[3])

\* the order of the sort with ties broken by the later position
SortsBefore_Unstable(variants, j, i) ==
    \/ KeyLess(SortKey(variants[j]), SortKey(variants[i]))
    \/ SortKey(variants[j]) = SortKey(variants[i]) /\ j > i

\* element j comes before element i in the sorted list: a smaller key, or
\* the same key and an earlier position (sorted() is stable)
SortsBefore(variants, j, i) ==
    \/ KeyLess(SortKey(variants[j]), SortKey(variants[i]))
    \/ SortKey(variants[j]) = SortKey(variants[i]) /\ j < i

\* position of variants[i] in the sorted list
SortedIndex(variants, i) == 1 + Cardinality({j \in 1..Len(variants) : SortsBefore(variants, j, i)})

\* sorted(variants, key=...)
sorted(variants) ==
    [p \in 1..Len(variants) |->
        variants[CHOOSE i \in 1..Len(variants) : SortedIndex(variants, i) = p]]

\* str.capitalize() on the series keys
capitalize(series_key) == CASE series_key = "paramount" -> "Paramount"
                            [] series_key = "classic" -> "Classic"
                            [] series_key = "select" -> "Select"
                            [] series_key = "unknown" -> "Unknown"

RECURSIVE SumLen(_, _)
\* sum(len(s['variants']) for s in series_data.values())
SumLen(sd, keys) == IF keys = {} THEN 0
                    ELSE LET k == CHOOSE k \in keys : TRUE
                         IN  Len(sd[k].variants) + SumLen(sd, keys \ {k})

\* every series is emitted as a group
HasGroup_Always(sd, series_key) == TRUE

\* a series is emitted as a group
HasGroup(sd, series_key) == sd[series_key].variants # <<>>

\* total_series as the number of series keys
total_series_AllKeys(sd) == Cardinality(DOMAIN sd)

total_series(sd) == Cardinality({s \in Series : sd[s].variants # <<>>})
total_variants(sd) == SumLen(sd, Series)

group(sd, series_key) == [series_name |-> capitalize(series_key),
                          total_variants |-> Len(sd[series_key].variants),
                          variants |-> sorted(sd[series_key].variants)]

get_structured_data(sd, now) ==
    [scrape_metadata |-> [timestamp |-> now,
                          total_series |-> total_series(sd),
                          total_variants |-> total_variants(sd)],
     range_series |-> [s \in {k \in Series : HasGroup(sd, k)} |-> group(sd, s)]]

(***************************************************************************)
(* Inputs: the site served by crawler.arun, and direct add_variant calls   *)
(***************************************************************************)
UrlOf(i) == "/p" \o ToString(i)
Urls == {UrlOf(i) : i \in 1..NumUrls}
UrlIndex(u) == CHOOSE i \in 1..NumUrls : UrlOf(i) = u
Caps == 1..MaxCap
\* the start URL; the URLs are interchangeable
StartUrl == "/p1"
\* values datetime.now().isoformat() can return
Timestamps == {"2026-01-01T00:00:00", "2026-01-01T00:00:01"}

title_A == <<"3", "0", " ", "i", "n", ".", " ", "P", "a", "r", "a", "m", "o", "u", "n", "t", " ", "G", "a", "s", " ", "R", "a", "n", "g", "e", " ", "(", "S", "G", "R", "Z", "-", "3", "0", "-", "C", "B", ")">>
title_B == <<"8", " ", "i", "n", ".", " ", "P", "A", "R", "A", "M", "O", "U", "N", "T", " ", "D", "u", "a", "l", " ", "F", "u", "e", "l", " ", "G", "a", "s", " ", "M", "a", "t", "t", "e", " ", "B", "l", "a", "c", "k">>
title_C == <<"3", "6", " ", "i", "n", ".", " ", "C", "l", "a", "s", "s", "i", "c", " ", "S", "e", "l", "e", "c", "t", " ", "B", "l", "a", "c", "k", " ", "S", "t", "a", "i", "n", "l", "e", "s", "s", " ", "S", "t", "e", "e", "l">>
title_D == <<"4", "8", " ", "i", "n", "c", "h", " ", "S", "e", "l", "e", "c", "t", " ", "W", "h", "i", "t", "e", " ", "M", "a", "t", "t", "e", " ", "D", "o", "o", "r", " ", "B", "r", "a", "s", "s", " ", "B", "u", "r", "n", "e", "r">>
title_E == <<"R", "a", "n", "g", "e", " ", "H", "o", "o", "d">>

\* the URLs of the set S as a list, in the order of their numbers
RECURSIVE ListOf(_)
ListOf(S) == IF S = {} THEN <<>>
             ELSE LET u == CHOOSE x \in S : \A y \in S : UrlIndex(x) <= UrlIndex(y)
                  IN  <<u>> \o ListOf(S \ {u})

\* a page's variant_urls list: at most MaxListed different URLs, each in a dict
\* under 'url'; a padded list repeats its first URL and ends with an empty
\* swatch-url, which is falsy
UrlEntry(u) == [url |-> u]
UrlList(S, padded) == LET l == [i \in 1..Cardinality(S) |-> UrlEntry(ListOf(S)[i])]
                      IN  IF padded /\ S # {} THEN l \o <<l[1], UrlEntry("")>> ELSE l
UrlLists == {UrlList(S, padded) : S \in {T \in SUBSET Urls : Cardinality(T) <= MaxListed},
                                  padded \in BOOLEAN}

\* the scalar fields of the first extracted item of a page
PageFields == {[title |-> title_A, description |-> "text", images |-> <<"a.jpg">>],
               [price |-> PyStr(<<"1", "2", "9", "9", ".", "9", "9">>)]}

\* the first extracted item: a dict, with or without a variant_urls key
DataDicts == PageFields \cup {Merge(f, [variant_urls |-> l]) : f \in PageFields, l \in UrlLists}

\* result.extracted_content: text json.loads rejects, or a JSON list
NotJson == [json |-> FALSE]
JsonList(items) == [json |-> TRUE, value |-> items]
ExtractedContents == {NotJson, JsonList(<<>>)} \cup {JsonList(<<d>>) : d \in DataDicts}

\* what crawler.arun can return
Results == {[success |-> FALSE, extracted_content |-> NotJson]}
           \cup {[success |-> TRUE, extracted_content |-> c] : c \in ExtractedContents}

\* arguments of add_variant when the manager is driven directly
VariantInputs == {[title |-> title_A, price |-> PyStr(<<"1", "2", "9", "9", "9", "9">>), url |-> "/p1", description |-> "text", images |-> <<"a.jpg">>],
                  [title |-> title_A, price |-> PyInt(5), url |-> "/p3"],
                  [title |-> title_B, price |-> PyInt(99900), url |-> "/p2"],
                  [title |-> title_C, price |-> PyStr(<<" ", "5", " ">>)],
                  [title |-> title_D, url |-> "/p3"],
                  [title |-> title_E, price |-> PyStr(<<"0">>), url |-> "/p1"],
                  [url |-> "/p2"],
                  [title |-> title_A, price |-> PyStr(<<"1", "2", "9", "9", ".", "9", "9">>), url |-> "/p1"],
                  [title |-> title_E, price |-> PyNone]}

(***************************************************************************)
(* get_all_variants_demo                                                   *)
(***************************************************************************)
VARIABLES
    max_urls,       \* argument max_urls
    start_url,      \* argument start_url
    visited,        \* local visited: set of URLs
    queue,          \* local queue: list of URLs
    series_data,    \* series_manager.series_data
    current_url,    \* local current_url
    pc,             \* "loop": at the while test; "await": suspended in crawler.arun;
                    \* "done": returned; "manager", "read": a manager driven directly
    final_data,     \* the document handed to the caller
    fetched,        \* history: the URLs passed to crawler.arun, in call order
    outcome,        \* history: how the iteration of each URL ended
    start_page,     \* history: the branch taken for the page of start_url
    start_page_urls,\* history: the variant URLs on the page of start_url, once read
    discovered,     \* history: the URLs listed on pages processed without error
    relisted,       \* history: the URLs a page listed while they were queued
    builds,         \* history: number of get_structured_data calls of the run
    calls,          \* history: number of direct add_variant calls
    last_call,      \* history: argument of the last direct add_variant call
    raised,         \* history: the last direct add_variant call raised
    appended,       \* history: the URLs put on the queue, in the order of the appends
    arg_title,      \* the title given to the extractor functions called directly
    ret_series,     \* the value detect_series(arg_title) returned
    ret_series_again, \* the value detect_series returned for ret_series
    ret_details     \* the value extract_variant_details(arg_title) returned

vars == <<max_urls, start_url, visited, queue, series_data, current_url, pc, final_data,
          fetched, outcome, start_page, start_page_urls, discovered, relisted, builds,
          calls, last_call, raised, appended, arg_title, ret_series, ret_series_again, ret_details>>

\* the variables of the extractor functions called directly
extract_vars == <<arg_title, ret_series, ret_series_again, ret_details>>
NoSeries == "none"
NoDetails == [extracted |-> FALSE]

NoUrl == ""
NoDoc == [returned |-> FALSE]
NoCall == [called |-> FALSE]

\* the while condition with  <=  in place of  <
LoopCond_OffByOne(q, vis, cap) == q # <<>> /\ Cardinality(vis) <= cap

\* the while condition without the cap
LoopCond_NoCap(q, vis, cap) == q # <<>>

\* the while condition
LoopCond(q, vis, cap) == q # <<>> /\ Cardinality(vis) < cap

\* the guard of queue.append without the test against the queue
ShouldEnqueue_VisitedOnly(new_url, vis, q) == new_url \notin vis

\* the guard of queue.append without the test against visited
ShouldEnqueue_QueueOnly(new_url, vis, q) == new_url \notin SeqRange(q)

\* the guard of queue.append
ShouldEnqueue(new_url, vis, q) == new_url \notin vis /\ new_url \notin SeqRange(q)

\* the loop left after its first pass
enqueue_all_FirstOnly(q, vis, order) ==
    IF order = <<>> THEN q
    ELSE IF ShouldEnqueue(Head(order), vis, q) THEN Append(q, Head(order)) ELSE q

\* the loop  for new_url in unique_urls, taken in the order  order
RECURSIVE enqueue_all(_, _, _)
enqueue_all(q, vis, order) ==
    IF order = <<>> THEN q
    ELSE enqueue_all(IF ShouldEnqueue(Head(order), vis, q) THEN Append(q, Head(order)) ELSE q,
                     vis, Tail(order))

\* the queue when the loop body ends, with a failed URL queued again
queue_after_Retry(q, vis, oc, url, order) == IF oc = "ok" THEN enqueue_all(q, vis, order) ELSE Append(q, url)

\* the queue when the loop body ends: only a page processed up to the
\* discovery loop appends; the except branch and the else branch leave it alone
queue_after(q, vis, oc, url, order) == IF oc = "ok" THEN enqueue_all(q, vis, order) ELSE q

\* the iteration orders of a Python set
Orderings(S) == {o \in [1..Cardinality(S) -> S] : \A i, j \in 1..Cardinality(S) : o[i] = o[j] => i = j}

\* unique_urls of a page
unique_urls(data) == {e.url : e \in SeqRange(Get(data, "variant_urls", <<>>))} \ {""}

\* variant_data built from the first extracted item
\* variant_data carrying the start URL in place of the URL of the page
variant_data_of_StartUrl(data, url) == [url |-> StartUrl,
                                        title |-> Get(data, "title", <<"N", "/", "A">>),
                                        price |-> Get(data, "price", PyStr(<<"0">>)),
                                        description |-> Get(data, "description", ""),
                                        images |-> Get(data, "images", <<>>)]

variant_data_of(data, url) == [url |-> url,
                               title |-> Get(data, "title", <<"N", "/", "A">>),
                               price |-> Get(data, "price", PyStr(<<"0">>)),
                               description |-> Get(data, "description", ""),
                               images |-> Get(data, "images", <<>>)]

\* how the body of the loop ends for a result of crawler.arun
\* the branch the loop body takes: "failed": the else branch; "ok": the try
\* block ran to its end; the except branch: "not_json" when json.loads raised,
\* "no_item" when [0] raised, "ingest_error" when add_variant raised
BranchOf(result, url) ==
    IF ~result.success THEN "failed"
    ELSE IF ~result.extracted_content.json THEN "not_json"
    ELSE IF result.extracted_content.value = <<>> THEN "no_item"
    ELSE IF add_variant_raises(variant_data_of(result.extracted_content.value[1], url)) THEN "ingest_error"
    ELSE "ok"

\* what the history keeps of a branch: the two exceptions raised after
\* json.loads are kept as "error"
OutcomeOf(branch) == IF branch \in {"no_item", "ingest_error"} THEN "error" ELSE branch

Init == /\ max_urls \in Caps
        /\ start_url = StartUrl
        /\ visited = {}
        /\ queue = <<start_url>>
        /\ series_data = NewSeriesData
        /\ current_url = NoUrl
        /\ pc = "loop"
        /\ final_data = NoDoc
        /\ fetched = <<>>
        /\ outcome = [u \in Urls |-> "none"]
        /\ start_page = "none"
        /\ start_page_urls = {}
        /\ discovered = {}
        /\ relisted = {}
        /\ builds = 0
        /\ calls = 0
        /\ last_call = NoCall
        /\ raised = FALSE
        /\ appended = <<start_url>>
        /\ arg_title = <<>>
        /\ ret_series = NoSeries
        /\ ret_series_again = NoSeries
        /\ ret_details = NoDetails

\* the pass with queue.pop() in place of queue.pop(0)
Dequeue_PopLast ==
    /\ pc = "loop"
    /\ LoopCond(queue, visited, max_urls)
    /\ current_url' = queue[Len(queue)]
    /\ queue' = SubSeq(queue, 1, Len(queue) - 1)
    /\ IF queue[Len(queue)] \in visited
       THEN /\ visited' = visited
            /\ fetched' = fetched
            /\ pc' = "loop"
       ELSE /\ visited' = visited \cup {queue[Len(queue)]}
            /\ fetched' = Append(fetched, Origin \o queue[Len(queue)])
            /\ pc' = "await"
    /\ UNCHANGED <<max_urls, start_url, series_data, final_data, outcome,
                   start_page, start_page_urls, discovered, relisted, builds,
                   calls, last_call, raised, appended, extract_vars>>

\* the pass started without waiting for the fetch that is outstanding
Dequeue_WhileAwaiting ==
    /\ pc \in {"loop", "await"}
    /\ LoopCond(queue, visited, max_urls)
    /\ current_url' = Head(queue)
    /\ queue' = Tail(queue)
    /\ IF Head(queue) \in visited
       THEN /\ visited' = visited
            /\ fetched' = fetched
            /\ pc' = "loop"
       ELSE /\ visited' = visited \cup {Head(queue)}
            /\ fetched' = Append(fetched, Origin \o Head(queue))
            /\ pc' = "await"
    /\ UNCHANGED <<max_urls, start_url, series_data, final_data, outcome,
                   start_page, start_page_urls, discovered, relisted, builds,
                   calls, last_call, raised, appended, extract_vars>>

\* one pass from the while test to the await: pop, visited check, visited.add, arun call
Dequeue ==
    /\ pc = "loop"
    /\ LoopCond(queue, visited, max_urls)
    /\ current_url' = Head(queue)
    /\ queue' = Tail(queue)
    /\ IF Head(queue) \in visited
       THEN /\ visited' = visited
            /\ fetched' = fetched
            /\ pc' = "loop"
       ELSE /\ visited' = visited \cup {Head(queue)}
            /\ fetched' = Append(fetched, Origin \o Head(queue))
            /\ pc' = "await"
    /\ UNCHANGED <<max_urls, start_url, series_data, final_data, outcome,
                   start_page, start_page_urls, discovered, relisted, builds,
                   calls, last_call, raised, appended, extract_vars>>

\* crawler.arun returns result; the rest of the loop body runs up to the while test
ArunReturns ==
    /\ pc = "await"
    /\ \E result \in Results :
          LET oc == BranchOf(result, current_url)
              data == result.extracted_content.value[1]
              found == IF oc = "ok" THEN unique_urls(data) ELSE {}
          IN  /\ outcome' = [outcome EXCEPT ![current_url] = OutcomeOf(oc)]
              /\ start_page' = IF current_url = start_url THEN oc ELSE start_page
              /\ start_page_urls' = IF current_url = start_url /\ oc \in {"ok", "ingest_error"}
                                    THEN unique_urls(data) ELSE start_page_urls
              /\ discovered' = discovered \cup found
              /\ relisted' = relisted \cup (found \cap SeqRange(queue))
              /\ series_data' = IF oc = "ok"
                                THEN add_variant(series_data, variant_data_of(data, current_url))
                                ELSE series_data
              /\ \E order \in Orderings(found) :
                    /\ queue' = queue_after(queue, visited, oc, current_url, order)
                    /\ appended' = appended \o SelectSeq(order, LAMBDA u : ShouldEnqueue(u, visited, queue))
    /\ pc' = "loop"
    /\ UNCHANGED <<max_urls, start_url, visited, current_url, final_data, fetched, builds,
                   calls, last_call, raised, extract_vars>>

\* the loop ends: return series_manager.get_structured_data()
Return ==
    /\ pc = "loop"
    /\ ~LoopCond(queue, visited, max_urls)
    /\ \E now \in Timestamps : final_data' = get_structured_data(series_data, now)
    /\ builds' = builds + 1
    /\ pc' = "done"
    /\ UNCHANGED <<max_urls, start_url, visited, queue, series_data, current_url,
                   fetched, outcome,
                   start_page, start_page_urls, discovered, relisted, calls, last_call, raised,
                   appended, extract_vars>>

Next == Dequeue \/ ArunReturns \/ Return

Spec == Init /\ [][Next]_vars

\* crawler.arun returns and the loop body itself has no suspension point
FairSpec == Spec /\ WF_vars(Next)

(***************************************************************************)
(* A ZLineRangeSeriesManager driven directly by a caller                   *)
(***************************************************************************)
InitManager == /\ max_urls = 1
               /\ start_url = NoUrl
               /\ visited = {}
               /\ queue = <<>>
               /\ series_data = NewSeriesData
               /\ current_url = NoUrl
               /\ pc = "manager"
               /\ final_data = NoDoc
               /\ fetched = <<>>
               /\ outcome = [u \in Urls |-> "none"]
               /\ start_page = "none"
               /\ start_page_urls = {}
               /\ discovered = {}
               /\ relisted = {}
               /\ builds = 0
               /\ calls = 0
               /\ last_call = NoCall
               /\ raised = FALSE
               /\ appended = <<>>
               /\ arg_title = <<>>
               /\ ret_series = NoSeries
               /\ ret_series_again = NoSeries
               /\ ret_details = NoDetails

CallAddVariant ==
    /\ pc \in {"manager", "read"}
    /\ calls < MaxCalls
    /\ \E variant_data \in VariantInputs :
          /\ last_call' = variant_data
          /\ raised' = add_variant_raises(variant_data)
          /\ series_data' = IF add_variant_raises(variant_data) THEN series_data
                            ELSE add_variant(series_data, variant_data)
    /\ calls' = calls + 1
    /\ pc' = "manager"
    /\ UNCHANGED <<max_urls, start_url, visited, queue, current_url, final_data,
                   fetched, outcome,
                   start_page, start_page_urls, discovered, relisted, builds,
                   appended, extract_vars>>

CallGetStructuredData ==
    /\ pc \in {"manager", "read"}
    /\ \E now \in Timestamps : final_data' = get_structured_data(series_data, now)
    /\ pc' = "read"
    /\ UNCHANGED <<max_urls, start_url, visited, queue, series_data, current_url,
                   fetched, outcome,
                   start_page, start_page_urls, discovered, relisted, builds, calls, last_call, raised,
                   appended, extract_vars>>

NextManager == CallAddVariant \/ CallGetStructuredData

SpecManager == InitManager /\ [][NextManager]_vars

(***************************************************************************)
(* The extractor functions called directly on a title                      *)
(***************************************************************************)
\* the phrases titles are made of
Phrases == <<<<"P", "a", "r", "a", "m", "o", "u", "n", "t">>, <<"C", "L", "A", "S", "S", "I", "C">>, <<"s", "e", "l", "e", "c", "t">>, <<"D", "u", "a", "l", " ", "F", "u", "e", "l">>, <<"G", "A", "S">>,
             <<"B", "l", "a", "c", "k", " ", "S", "t", "a", "i", "n", "l", "e", "s", "s", " ", "S", "t", "e", "e", "l">>, <<"S", "a", "t", "i", "n", " ", "S", "t", "a", "i", "n", "l", "e", "s", "s", " ", "S", "t", "e", "e", "l">>, <<"s", "t", "a", "i", "n", "l", "e", "s", "s", " ", "s", "t", "e", "e", "l">>,
             <<"C", "h", "a", "m", "p", "a", "g", "n", "e", " ", "B", "r", "o", "n", "z", "e">>, <<"P", "o", "l", "i", "s", "h", "e", "d", " ", "G", "o", "l", "d">>, <<"M", "a", "t", "t", "e", " ", "B", "l", "a", "c", "k">>, <<"W", "h", "i", "t", "e", " ", "M", "a", "t", "t", "e", " ", "D", "o", "o", "r">>,
             <<"B", "r", "a", "s", "s", " ", "B", "u", "r", "n", "e", "r">>, <<"D", "u", "o", "P", "r", "o">>, <<"3", "0", " ", "i", "n", ".">>, <<"P", "a", "r", "a", "m", "o", "u", "n", "t", " ", "S", "e", "l", "e", "c", "t">>>>

\* the phrases numbered by ws, separated by single spaces
RECURSIVE JoinPhrases(_)
JoinPhrases(ws) == IF ws = <<>> THEN <<>>
                   ELSE IF Len(ws) = 1 THEN Phrases[ws[1]]
                   ELSE Phrases[ws[1]] \o <<" ">> \o JoinPhrases(Tail(ws))

Titles == {JoinPhrases(ws) : ws \in UNION {[1..n -> 1..Len(Phrases)] : n \in 0..MaxWords}}

\* the characters of the Python string that is a series key
SeriesChars(series_key) == CASE series_key = "paramount" -> <<"p", "a", "r", "a", "m", "o", "u", "n", "t">>
                             [] series_key = "classic" -> <<"c", "l", "a", "s", "s", "i", "c">>
                             [] series_key = "select" -> <<"s", "e", "l", "e", "c", "t">>
                             [] series_key = "unknown" -> <<"u", "n", "k", "n", "o", "w", "n">>

InitExtract == /\ max_urls = 1
               /\ start_url = NoUrl
               /\ visited = {}
               /\ queue = <<>>
               /\ series_data = NewSeriesData
               /\ current_url = NoUrl
               /\ pc = "extract"
               /\ final_data = NoDoc
               /\ fetched = <<>>
               /\ outcome = [u \in Urls |-> "none"]
               /\ start_page = "none"
               /\ start_page_urls = {}
               /\ discovered = {}
               /\ relisted = {}
               /\ builds = 0
               /\ calls = 0
               /\ last_call = NoCall
               /\ raised = FALSE
               /\ appended = <<>>
               /\ arg_title \in Titles
               /\ ret_series = NoSeries
               /\ ret_series_again = NoSeries
               /\ ret_details = NoDetails

traversal_vars == <<max_urls, start_url, visited, queue, current_url, fetched, outcome,
                    start_page, start_page_urls, discovered, relisted, builds, appended>>

CallDetectSeries ==
    /\ pc = "extract"
    /\ ret_series' = detect_series(arg_title)
    /\ pc' = "detected"
    /\ UNCHANGED <<traversal_vars, series_data, final_data, calls, last_call, raised,
                   arg_title, ret_series_again, ret_details>>

\* detect_series applied to its own result
CallDetectSeriesAgain ==
    /\ pc = "detected"
    /\ ret_series_again' = detect_series(SeriesChars(ret_series))
    /\ pc' = "redetected"
    /\ UNCHANGED <<traversal_vars, series_data, final_data, calls, last_call, raised,
                   arg_title, ret_series, ret_details>>

CallExtractVariantDetails ==
    /\ pc = "redetected"
    /\ ret_details' = extract_variant_details(arg_title)
    /\ pc' = "extracted"
    /\ UNCHANGED <<traversal_vars, series_data, final_data, calls, last_call, raised,
                   arg_title, ret_series, ret_series_again>>

\* add_variant called with the title
IngestTitle ==
    /\ pc = "extracted"
    /\ last_call' = [title |-> arg_title, url |-> StartUrl]
    /\ raised' = add_variant_raises(last_call')
    /\ series_data' = IF raised' THEN series_data ELSE add_variant(series_data, last_call')
    /\ calls' = calls + 1
    /\ pc' = "manager"
    /\ UNCHANGED <<traversal_vars, final_data, extract_vars>>

\* get_structured_data called after the title was ingested
BuildTitleDocument == calls = 1 /\ pc = "manager" /\ CallGetStructuredData

NextExtract == \/ CallDetectSeries
               \/ CallDetectSeriesAgain
               \/ CallExtractVariantDetails
               \/ IngestTitle
               \/ BuildTitleDocument

SpecExtract == InitExtract /\ [][NextExtract]_vars

(***************************************************************************)
(* Properties of the traversal                                             *)
(***************************************************************************)
\* number of positions of s that hold x
Count(x, s) == Cardinality({i \in 1..Len(s) : s[i] = x})
\* records of the manager that carry the absolute URL of u
RecordsOf(u) == {<<s, i>> \in Series \X (1..NumUrls) :
                    i <= Len(series_data[s].variants) /\ series_data[s].variants[i].url = Origin \o u}

\* C1: the number of distinct URLs fetched (the size of visited) never exceeds
\* max_urls, and no URL is passed to crawler.arun more than once, however many
\* pages list it.
C1_CapAndFetchOnce ==
    /\ Cardinality(visited) <= max_urls
    /\ \A u \in Urls : Count(Origin \o u, fetched) = (IF u \in visited THEN 1 ELSE 0)
    /\ Len(fetched) = Cardinality(visited)

\* the cap is reached and a fetched URL had been listed again while queued
C1_Witness ==
    /\ pc = "done"
    /\ Cardinality(visited) = max_urls
    /\ visited \cap relisted # {}

\* C2: a URL is appended to the queue only when it is neither in visited nor in
\* the queue at that moment, so the queue never holds a URL twice.
C2_EnqueueOnlyUnseen ==
    /\ [](\A u \in Urls : Count(u, queue) <= 1)
    /\ [][\A u \in Urls : Count(u, queue') > Count(u, queue) =>
              /\ u \notin visited
              /\ u \notin SeqRange(queue)
              /\ Count(u, queue') = 1]_vars

\* a queued URL that a second page listed while it was queued
C2_Witness == SeqRange(queue) \cap relisted # {}

\* C3: the traversal terminates; it leaves the loop exactly when the queue is
\* empty or the visited count equals max_urls, and the document is then built
\* once and returned.
C3_TerminatesAndBuildsOnce ==
    /\ <>(pc = "done")
    /\ [][/\ pc = "loop" => (pc' = "done" <=> (queue = <<>> \/ Cardinality(visited) = max_urls))
          /\ pc # "loop" => pc' # "done"]_vars
    /\ [](pc # "done" => builds = 0 /\ final_data = NoDoc)
    /\ [](pc = "done" => /\ builds = 1
                         /\ \E now \in Timestamps : final_data = get_structured_data(series_data, now))

\* the run ended by the cap with URLs still queued, after more than one fetch
C3_Witness ==
    /\ pc = "done"
    /\ builds = 1
    /\ queue # <<>>
    /\ Len(fetched) >= 2
    /\ Cardinality(visited) = max_urls

\* the ways an iteration ends that the adapter contract calls a failure
FailureOutcomes == {"failed", "not_json"}

\* C4: a URL whose fetch failed, or succeeded with content that is not JSON,
\* stays visited, is fetched once, is never queued again, adds no record and no
\* URL, and the loop goes on.
C4_FailureIsSkipped ==
    /\ [](\A u \in Urls : outcome[u] \in FailureOutcomes =>
              /\ u \in visited
              /\ Count(Origin \o u, fetched) = 1
              /\ u \notin SeqRange(queue)
              /\ RecordsOf(u) = {})
    /\ [][(pc = "await" /\ outcome'[current_url] \in FailureOutcomes) =>
              /\ queue' = queue
              /\ series_data' = series_data
              /\ visited' = visited
              /\ pc' = "loop"]_vars

\* a fetch returned text that is not JSON and a page fetched after it was
\* ingested
C4_Witness ==
    \E v, w \in Urls :
        /\ outcome[v] = "not_json"
        /\ outcome[w] = "ok"
        /\ \E j, k \in 1..Len(fetched) :
              /\ fetched[j] = Origin \o v
              /\ fetched[k] = Origin \o w
              /\ j < k

(***************************************************************************)
(* Properties of the aggregator                                            *)
(***************************************************************************)
\* the price of an add_variant argument is absent or is not an integer literal
PriceMissingOrUnparseable(variant_data) ==
    \/ "price" \notin DOMAIN variant_data
    \/ variant_data.price.type = "NoneType"
    \/ variant_data.price.type = "str" /\ ~IsIntLiteral(variant_data.price.val)

\* the list of the series that the title of variant_data selects
SeriesListOf(sd, variant_data) == sd[detect_series(Get(variant_data, "title", <<>>))].variants

\* C5: add_variant never raises; with a missing or unparseable price the record
\* is still appended, with price 0.
C5_AddVariantNeverRaises ==
    calls > 0 =>
        /\ ~raised
        /\ LET l == SeriesListOf(series_data, last_call)
           IN  /\ l # <<>>
               /\ l[Len(l)].title = Get(last_call, "title", <<>>)
               /\ PriceMissingOrUnparseable(last_call) => l[Len(l)].price = 0

\* the page of the start URL was fetched with success and its first item read
StartPageRead == start_page \in {"ok", "ingest_error"}

\* number of variants in a document
DocVariants(doc) == doc.scrape_metadata.total_variants

\* C6: with max_urls = 1 and a start page fetched successfully that lists n >= 1
\* URLs other than the start URL, one page is fetched, the n URLs are all queued
\* and unvisited at the end, and the document has exactly one variant.
C6_CapOneLeavesQueue ==
    (pc = "done" /\ max_urls = 1 /\ StartPageRead /\ start_page_urls \ {start_url} # {}) =>
        /\ Len(fetched) = 1
        /\ visited = {start_url}
        /\ SeqRange(queue) = start_page_urls \ {start_url}
        /\ Len(queue) = Cardinality(start_page_urls \ {start_url})
        /\ DocVariants(final_data) = 1

\* C7: a start page fetched successfully that lists no URL but its own ends the
\* run after one fetch with a one-variant document, whatever max_urls is.
C7_LoneStartPage ==
    (StartPageRead /\ start_page_urls \subseteq {start_url} /\ pc # "await") =>
        /\ pc = "loop" => ~LoopCond(queue, visited, max_urls)
        /\ pc = "done" => /\ fetched = <<Origin \o start_url>>
                          /\ queue = <<>>
                          /\ DocVariants(final_data) = 1

\* C8: an add_variant call that returns appends one record to the list of the
\* series of its title and changes no other list; nothing is deduplicated.
C8_AppendsExactlyOne ==
    [][(calls' = calls + 1 /\ ~raised') =>
          \E s \in Series :
              /\ s = detect_series(Get(last_call', "title", <<>>))
              /\ Len(series_data'[s].variants) = Len(series_data[s].variants) + 1
              /\ SubSeq(series_data'[s].variants, 1, Len(series_data[s].variants)) = series_data[s].variants
              /\ \A t \in Series \ {s} : series_data'[t] = series_data[t]]_vars

\* the same title, price and url were ingested twice and gave two records
C8_Witness ==
    \E s \in Series : \E i, j \in 1..Len(series_data[s].variants) :
        /\ i < j
        /\ series_data[s].variants[i] = series_data[s].variants[j]
        /\ calls = 2
        /\ ~raised

\* final_data is the document of the current series_data
DocCurrent == pc \in {"done", "read"}
Groups(doc) == DOMAIN doc.range_series

\* C9: the document has a group for a series exactly when the series holds a
\* variant; only 'unknown' titles give one group, no variant gives no group.
C9_GroupsAreNonEmptySeries ==
    DocCurrent =>
        /\ \A s \in Series : s \in Groups(final_data) <=> Len(series_data[s].variants) >= 1
        /\ Groups(final_data) \subseteq Series
        /\ (calls > 0 /\ \A s \in Series \ {"unknown"} : series_data[s].variants = <<>>
                      /\ series_data["unknown"].variants # <<>>)
              => Groups(final_data) = {"unknown"}
        /\ (\A s \in Series : series_data[s].variants = <<>>) => Groups(final_data) = {}

\* two records, both classified 'unknown', and a document with one group
C9_Witness ==
    /\ pc = "read"
    /\ Len(series_data["unknown"].variants) = 2
    /\ Cardinality(Groups(final_data)) = 1

RECURSIVE SumGroups(_, _)
\* sum of the groups' total_variants
SumGroups(doc, keys) == IF keys = {} THEN 0
                        ELSE LET k == CHOOSE k \in keys : TRUE
                             IN  doc.range_series[k].total_variants + SumGroups(doc, keys \ {k})

\* C10: total_series is the number of groups, total_variants the sum of the
\* groups' total_variants, and a group's total_variants the length of its
\* variants list and of the series' list.
C10_CountsAgree ==
    DocCurrent =>
        /\ final_data.scrape_metadata.total_series = Cardinality(Groups(final_data))
        /\ final_data.scrape_metadata.total_variants = SumGroups(final_data, Groups(final_data))
        /\ \A s \in Groups(final_data) :
              /\ final_data.range_series[s].total_variants = Len(final_data.range_series[s].variants)
              /\ final_data.range_series[s].total_variants = Len(series_data[s].variants)

\* a document with two groups, one of them with two variants
C10_Witness ==
    /\ pc = "read"
    /\ Cardinality(Groups(final_data)) = 2
    /\ \E s \in Groups(final_data) : final_data.range_series[s].total_variants = 2

\* the bijections of 1..n
Bijections(n) == {f \in [1..n -> 1..n] : \A i, j \in 1..n : f[i] = f[j] => i = j}

\* out is the stable sort of in by the composite key: out[i] = in[f[i]] for a
\* bijection f, keys never decrease along out, equal keys keep the order of in
IsStableSort(in, out) ==
    /\ Len(out) = Len(in)
    /\ \E f \in Bijections(Len(in)) :
          /\ \A i \in 1..Len(in) : out[i] = in[f[i]]
          /\ \A i, j \in 1..Len(in) :
                i < j => /\ ~KeyLess(SortKey(out[j]), SortKey(out[i]))
                         /\ SortKey(out[i]) = SortKey(out[j]) => f[i] < f[j]

\* C11: in every group the variants list is the stable sort of the series'
\* records by (size, fuel_type, accent) in string order.
C11_StableSortByKey ==
    DocCurrent =>
        \A s \in Groups(final_data) :
            IsStableSort(series_data[s].variants, final_data.range_series[s].variants)

\* a group whose records were reordered and which holds two different records
\* with the same key
C11_Witness ==
    /\ pc = "read"
    /\ \E s \in Groups(final_data) :
          /\ final_data.range_series[s].variants # series_data[s].variants
          /\ \E i, j \in 1..Len(series_data[s].variants) :
                /\ i < j
                /\ series_data[s].variants[i] # series_data[s].variants[j]
                /\ SortKey(series_data[s].variants[i]) = SortKey(series_data[s].variants[j])

(***************************************************************************)
(* Properties of the extractor functions                                   *)
(***************************************************************************)
\* the title holds the word, whatever the case of its letters
Mentions(word, t) == Contains(word, lower(t))

\* C12 as stated: detect_series returns one of the four values, by the priority
\* paramount > classic > select > unknown, every title holding both 'classic'
\* and 'select' is classified 'classic', and detect_series of the result is
\* the result.
C12_ClassicSelectAlwaysClassic ==
    /\ ret_series # NoSeries =>
          /\ ret_series \in Series
          /\ Mentions(<<"p", "a", "r", "a", "m", "o", "u", "n", "t">>, arg_title) => ret_series = "paramount"
          /\ (Mentions(<<"c", "l", "a", "s", "s", "i", "c">>, arg_title) /\ Mentions(<<"s", "e", "l", "e", "c", "t">>, arg_title))
                => ret_series = "classic"
    /\ ret_series_again # NoSeries => ret_series_again = ret_series

\* C12, amended: detect_series returns one of the four values, the first of
\* paramount, classic, select that the title holds in any letter case and
\* unknown when it holds none; so a title holding both 'classic' and 'select'
\* is classified 'classic' unless it also holds 'paramount'; detect_series of
\* the result is the result.
C12_DetectSeriesPriority ==
    /\ ret_series # NoSeries =>
          /\ ret_series \in Series
          /\ Mentions(<<"p", "a", "r", "a", "m", "o", "u", "n", "t">>, arg_title) => ret_series = "paramount"
          /\ (~Mentions(<<"p", "a", "r", "a", "m", "o", "u", "n", "t">>, arg_title) /\ Mentions(<<"c", "l", "a", "s", "s", "i", "c">>, arg_title))
                => ret_series = "classic"
          /\ (/\ ~Mentions(<<"p", "a", "r", "a", "m", "o", "u", "n", "t">>, arg_title)
              /\ ~Mentions(<<"c", "l", "a", "s", "s", "i", "c">>, arg_title)
              /\ Mentions(<<"s", "e", "l", "e", "c", "t">>, arg_title))
                => ret_series = "select"
          /\ (/\ ~Mentions(<<"p", "a", "r", "a", "m", "o", "u", "n", "t">>, arg_title)
              /\ ~Mentions(<<"c", "l", "a", "s", "s", "i", "c">>, arg_title)
              /\ ~Mentions(<<"s", "e", "l", "e", "c", "t">>, arg_title))
                => ret_series = "unknown"
    /\ ret_series_again # NoSeries => ret_series_again = ret_series

\* 'select' comes before 'CLASSIC' in the title, and both calls have returned
C12_Witness ==
    /\ arg_title = <<"s", "e", "l", "e", "c", "t", " ", "C", "L", "A", "S", "S", "I", "C">>
    /\ ret_series = "classic"
    /\ ret_series_again = "classic"

\* C13: fuel_type is 'Dual Fuel' for every title holding 'dual fuel' in any
\* letter case, also when it holds 'gas'; it is 'Gas' exactly when the title
\* holds 'gas' and not 'dual fuel'; it is empty when the title holds neither.
C13_DualFuelBeforeGas ==
    ret_details # NoDetails =>
        /\ Mentions(<<"d", "u", "a", "l", " ", "f", "u", "e", "l">>, arg_title) => ret_details.fuel_type = <<"D", "u", "a", "l", " ", "F", "u", "e", "l">>
        /\ ret_details.fuel_type = <<"G", "a", "s">>
              <=> (Mentions(<<"g", "a", "s">>, arg_title) /\ ~Mentions(<<"d", "u", "a", "l", " ", "f", "u", "e", "l">>, arg_title))
        /\ (~Mentions(<<"g", "a", "s">>, arg_title) /\ ~Mentions(<<"d", "u", "a", "l", " ", "f", "u", "e", "l">>, arg_title))
              => ret_details.fuel_type = <<>>

\* the title holds 'GAS' before 'Dual Fuel'
C13_Witness ==
    /\ arg_title = <<"G", "A", "S", " ", "D", "u", "a", "l", " ", "F", "u", "e", "l">>
    /\ ret_details # NoDetails
    /\ ret_details.fuel_type = <<"D", "u", "a", "l", " ", "F", "u", "e", "l">>

\* C14: base_finish is the first of 'black stainless steel', 'satin stainless
\* steel', 'stainless steel' that the title holds in any letter case, and
\* empty when it holds none: a title holding 'Black Stainless Steel' always
\* gives 'Black Stainless Steel', never the plain 'Stainless Steel'.
C14_BaseFinishPriority ==
    ret_details # NoDetails =>
        /\ Mentions(<<"b", "l", "a", "c", "k", " ", "s", "t", "a", "i", "n", "l", "e", "s", "s", " ", "s", "t", "e", "e", "l">>, arg_title)
              => ret_details.base_finish = <<"B", "l", "a", "c", "k", " ", "S", "t", "a", "i", "n", "l", "e", "s", "s", " ", "S", "t", "e", "e", "l">>
        /\ (/\ ~Mentions(<<"b", "l", "a", "c", "k", " ", "s", "t", "a", "i", "n", "l", "e", "s", "s", " ", "s", "t", "e", "e", "l">>, arg_title)
            /\ Mentions(<<"s", "a", "t", "i", "n", " ", "s", "t", "a", "i", "n", "l", "e", "s", "s", " ", "s", "t", "e", "e", "l">>, arg_title))
              => ret_details.base_finish = <<"S", "a", "t", "i", "n", " ", "S", "t", "a", "i", "n", "l", "e", "s", "s", " ", "S", "t", "e", "e", "l">>
        /\ (/\ ~Mentions(<<"b", "l", "a", "c", "k", " ", "s", "t", "a", "i", "n", "l", "e", "s", "s", " ", "s", "t", "e", "e", "l">>, arg_title)
            /\ ~Mentions(<<"s", "a", "t", "i", "n", " ", "s", "t", "a", "i", "n", "l", "e", "s", "s", " ", "s", "t", "e", "e", "l">>, arg_title)
            /\ Mentions(<<"s", "t", "a", "i", "n", "l", "e", "s", "s", " ", "s", "t", "e", "e", "l">>, arg_title))
              => ret_details.base_finish = <<"S", "t", "a", "i", "n", "l", "e", "s", "s", " ", "S", "t", "e", "e", "l">>
        /\ ~Mentions(<<"s", "t", "a", "i", "n", "l", "e", "s", "s", " ", "s", "t", "e", "e", "l">>, arg_title) => ret_details.base_finish = <<>>

\* the title holds the plain 'stainless steel' before 'Black Stainless Steel'
C14_Witness ==
    /\ arg_title = <<"s", "t", "a", "i", "n", "l", "e", "s", "s", " ", "s", "t", "e", "e", "l", " ", "B", "l", "a", "c", "k", " ", "S", "t", "a", "i", "n", "l", "e", "s", "s", " ", "S", "t", "e", "e", "l">>
    /\ ret_details # NoDetails
    /\ ret_details.base_finish = <<"B", "l", "a", "c", "k", " ", "S", "t", "a", "i", "n", "l", "e", "s", "s", " ", "S", "t", "e", "e", "l">>

\* d has the four keys and holds an optional key only with a value that is
\* not empty and only when the title t holds one of the words that key is
\* detected by
HasAttributeKeys(d, t) ==
    /\ {"size", "fuel_type", "base_finish", "accent"} \subseteq DOMAIN d
    /\ "door_color" \in DOMAIN d =>
          /\ d.door_color # <<>>
          /\ Mentions(<<"w", "h", "i", "t", "e", " ", "m", "a", "t", "t", "e">>, t)
    /\ "burner_type" \in DOMAIN d =>
          /\ d.burner_type # <<>>
          /\ \/ Mentions(<<"b", "r", "a", "s", "s", " ", "b", "u", "r", "n", "e", "r">>, t)
             \/ Mentions(<<"d", "u", "o", "p", "r", "o">>, t)
             \/ Mentions(<<"p", "o", "r", "c", "e", "l", "a", "i", "n">>, t)

FetchedInAppendOrder ==
    /\ appended # <<>>
    /\ appended[1] = start_url
    /\ Len(fetched) <= Len(appended)
    /\ \A i \in 1..Len(fetched) : fetched[i] = Origin \o appended[i]
    /\ queue = SubSeq(appended, Len(fetched) + 1, Len(appended))

\* C16: the visited set only grows, and URLs are dequeued and fetched in
\* exactly the order in which they were appended to the queue, the start URL
\* first.
C16_VisitedGrowsQueueFifo ==
    /\ []FetchedInAppendOrder
    /\ [][visited \subseteq visited']_vars

\* the start page listed two URLs that were appended against their numbering
\* and all three URLs were fetched
C16_Witness ==
    /\ appended = <<"/p1", "/p3", "/p2">>
    /\ Len(fetched) = 3
    /\ visited = {"/p1", "/p2", "/p3"}

\* the number of fetches issued whose result has not been processed
Outstanding == Len(fetched) - Cardinality({u \in Urls : outcome[u] # "none"})

\* C17: at most one fetch is outstanding, and one is outstanding exactly
\* during the await; the only step taken while a fetch is outstanding is the
\* processing of its own result, which leaves visited alone, so visited, queue
\* and aggregator do not change before that; a fetch is issued only when none
\* is outstanding.
C17_StrictlySequential ==
    /\ [](/\ Outstanding \in {0, 1}
          /\ Outstanding = 1 <=> pc = "await")
    /\ [][/\ pc = "await" =>
                /\ visited' = visited
                /\ fetched' = fetched
                /\ outcome[current_url] = "none"
                /\ outcome'[current_url] # "none"
                /\ \A u \in Urls \ {current_url} : outcome'[u] = outcome[u]
                /\ Outstanding' = 0
          /\ fetched' # fetched =>
                /\ Outstanding = 0
                /\ Len(fetched') = Len(fetched) + 1
                /\ queue' = Tail(queue)
                /\ series_data' = series_data]_vars

\* the second fetch is outstanding and the first has been processed
C17_Witness ==
    /\ pc = "await"
    /\ Len(fetched) = 2
    /\ Outstanding = 1
    /\ outcome[start_url] # "none"

\* C18: the queue never holds an entry twice nor a visited URL; so every
\* dequeue takes an unvisited URL, issues exactly one fetch, for that URL, and
\* makes visited one larger: the branch that drops a visited URL is not taken.
C18_QueueDistinctUnvisited ==
    /\ [](/\ \A i, j \in 1..Len(queue) : queue[i] = queue[j] => i = j
          /\ SeqRange(queue) \cap visited = {})
    /\ [][Len(queue') < Len(queue) =>
             /\ queue' = Tail(queue)
             /\ Head(queue) \notin visited
             /\ visited' = visited \cup {Head(queue)}
             /\ Cardinality(visited') = Cardinality(visited) + 1
             /\ fetched' = Append(fetched, Origin \o Head(queue))
             /\ pc' = "await"]_vars

\* pages listed a URL that was visited and a URL that was queued, and the
\* third URL was then dequeued
C18_Witness ==
    /\ pc = "await"
    /\ Len(fetched) = 3
    /\ start_url \in discovered
    /\ relisted # {}

\* the places <<series, position>> of the records the aggregator holds
AllRecords == {<<s, i>> \in Series \X (1..NumUrls) : i <= Len(series_data[s].variants)}

\* the places <<series, position>> of the records of a document
DocRecords(doc) == {<<s, i>> \in Groups(doc) \X (1..NumUrls) : i <= Len(doc.range_series[s].variants)}

\* C19: every record of the aggregator carries the URL of a visited page whose
\* fetch succeeded, and no two records carry the same URL; so in the document
\* a traversal returns the variant urls are pairwise distinct, each is the
\* origin followed by a visited URL, and
\* total_variants <= number of visited URLs <= max_urls.
C19_OneRecordPerFetchedUrl ==
    /\ \A r \in AllRecords :
          \E u \in visited : /\ outcome[u] = "ok"
                             /\ series_data[r[1]].variants[r[2]].url = Origin \o u
    /\ \A u \in Urls : Cardinality(RecordsOf(u)) <= 1
    /\ pc = "done" =>
          /\ \A r, q \in DocRecords(final_data) :
                final_data.range_series[r[1]].variants[r[2]].url
                   = final_data.range_series[q[1]].variants[q[2]].url => r = q
          /\ \A r \in DocRecords(final_data) :
                \E u \in visited : final_data.range_series[r[1]].variants[r[2]].url = Origin \o u
          /\ DocVariants(final_data) <= Cardinality(visited)
          /\ Cardinality(visited) <= max_urls

\* three pages were visited up to the cap, two of them gave a record and one
\* did not
C19_Witness ==
    /\ pc = "done"
    /\ Cardinality(visited) = 3
    /\ max_urls = 3
    /\ DocVariants(final_data) = 2
    /\ Cardinality(DocRecords(final_data)) = 2
    /\ \E u \in visited : outcome[u] # "ok"

\* C20: when the run ends with fewer than max_urls URLs visited, the start
\* URL and every URL listed on a page that was processed without error are
\* visited.
C20_ClosedUnderDiscovery ==
    (pc = "done" /\ Cardinality(visited) < max_urls) =>
        /\ start_url \in visited
        /\ discovered \subseteq visited
        /\ queue = <<>>

\* the run ended below the cap after the start page listed another URL whose
\* page listed the start URL
C20_Witness ==
    /\ pc = "done"
    /\ max_urls = 3
    /\ Cardinality(visited) = 2
    /\ discovered = visited

====
